---- MODULE Spec2Model ----
(***************************************************************************)
(* State-machine model of src/main.rs: the GTK main-loop bridge around an  *)
(* embedded Servo instance.  One GUI thread runs main() and, inside        *)
(* gtk::main(), the registered callbacks (run to completion, one at a      *)
(* time); engine worker threads only ever call GtkEventLoopWaker::wake().  *)
(*                                                                         *)
(* Coordinates of pointer events are f64 in the source; they are modelled  *)
(* in half pixels (the integer c stands for c/2 px) so that the            *)
(* `as i32` truncation of the scroll handler is visible.                   *)
(***************************************************************************)
EXTENDS Integers, Sequences, FiniteSets, TLC

\* ---------------------------------------------------------------- bounds
NThreads == 2       \* engine worker threads holding a waker clone
MaxWakes == 2       \* wake() calls issued in one run
MaxTicks == 3       \* native input callbacks dispatched in one run
MaxCoord == 2       \* pointer coordinates 1..MaxCoord, in half pixels
MaxDelta == 1       \* toolkit scroll deltas -MaxDelta..MaxDelta
MaxView  == 2       \* browser ids the engine may answer with
MaxNav   == 1       \* navigation requests the engine raises in one run
MaxScale == 2       \* HiDPI scale factors 1..MaxScale
MaxScrolls == 1     \* scroll events of a run that only scrolls
MaxMoves == 1       \* pointer moves that precede the scrolling of such a run
MaxResizes == 2     \* resizes of a run that only resizes

\* ------------------------------------------------------ program constants
ScrollFactor == 38  \* magnitude of the vertical scroll scaling
F32Exact == 16777216  \* 2^24: the integers up to it are all f32 values

Workers    == 1..NThreads
Coords     == 1..MaxCoord
Deltas     == (0 - MaxDelta)..MaxDelta
\* A delta with 25 significant bits: an f64 value that is not an f32 value.
FineDelta  == F32Exact + 1
ViewIds    == 1..MaxView
NavChans   == 1..MaxNav
Directions == {"Down", "Up", "Left", "Right", "Smooth"}
Keys       == {"R", "r"}
InputKinds == {"motion", "resize", "scroll", "key"}
Scales     == 1..MaxScale
RequestedSize == << 800, 600 >>     \* set_size_request, line 52
ResizedSize   == << 1024, 768 >>    \* the logical size a resize gives the window
\* Logical sizes of the window and sizes the resize signal may pass along.
WindowSizes   == {RequestedSize, ResizedSize}
AreaSizes     == {RequestedSize, ResizedSize}
\* Pointer positions the toolkit reports, half pixels.
Positions  == { << x, MaxCoord + 1 - x >> : x \in Coords }

VARIABLES
    pc,            \* position of the GUI thread in main()
    ret,           \* where the GUI thread resumes when the engine call returns
    panic,         \* reason of the GUI thread's panic, "none" if it has not
    servoBorrow,   \* borrow flag of the RefCell<Servo>: 0 free, 1 mutably borrowed
    pointer,       \* contents of the RefCell<(f64, f64)>, half pixels
    pointerBorrow, \* borrow flag of that cell: 0 free, -1 written, n > 0 readers
    winSize,       \* gtk_window.get_size(): the live logical size
    scale,         \* gtk_window.get_scale_factor()
    registered,    \* callbacks connected to the toolkit
    quit,          \* gtk::main_quit() has been called
    reply,         \* the ipc reply channel of NewBrowser
    browser_id,    \* the id bound at line 119, 0 before
    pending,       \* wake signals written to the channel and not yet read
    rxAlive,       \* the receiving end of the wake channel exists
    txHolder,      \* worker holding the Mutex<Sender>, 0 when free
    wpc,           \* per worker: "idle", "lock" (in wake(), waiting for the mutex),
                   \* or "send" (in wake(), mutex held)
    hasWaker,      \* per worker: the engine gave it a clone of the waker
    wakes,         \* wake() calls issued so far
    sendErr,       \* a send on the closed channel was reported as an error
    engineLog,     \* the handle_events calls the engine received, in order
    ticks,         \* the callbacks the main loop dispatched, in order
    navRequested,  \* navigation requests the engine has raised
    navSends       \* per navigation request: the values sent on its channel

vars == << pc, ret, panic, servoBorrow, pointer, pointerBorrow, winSize, scale, registered, quit, reply,
           browser_id, pending, rxAlive, txHolder, wpc, hasWaker, wakes,
           sendErr, engineLog, ticks, navRequested, navSends >>

guiVars    == << pc, ret, panic, servoBorrow >>
wakerVars  == << pending, rxAlive, txHolder, wpc, hasWaker, wakes, sendErr >>

\* ----------------------------------------------------------- conversions
\* `x as i32` of a non-negative f64: truncation toward zero (half pixels -> pixels).
AsI32(c) == c \div 2

Abs(n) == IF n < 0 THEN 0 - n ELSE n

\* The distance between neighbouring f32 values at magnitude a: an f32 keeps 24
\* significant bits, so magnitudes below F32Exact are spaced like the f64 they
\* come from and each doubling of the magnitude doubles the spacing.
RECURSIVE Ulp(_)
Ulp(a) == IF a < F32Exact THEN 1 ELSE 2 * Ulp(a \div 2)

\* `x as f32` of an f64: round to the nearest f32, ties to the even mantissa.
\* Values are integers in a power-of-two unit, which rounding is independent of.
AsF32(c) ==
    LET a == Abs(c)
        u == Ulp(a)
        q == a \div u
        r == a % u
        m == IF 2 * r > u \/ (2 * r = u /\ q % 2 = 1) THEN q + 1 ELSE q
    IN  IF c < 0 THEN 0 - (m * u) ELSE m * u

\* ------------------------------------------------------- window events
NewBrowser        == [type |-> "NewBrowser", url |-> "https://servo.org"]
SelectBrowser(id) == [type |-> "SelectBrowser", id |-> id]
\* Faulty variant: a reload names the placeholder instead of the view.
ReloadPlaceholder(id) == [type |-> "Reload", id |-> 0]
Reload(id)        == [type |-> "Reload", id |-> id]
MouseWindowMoveEventClass(x, y) ==
    [type |-> "MouseWindowMoveEventClass", x |-> AsF32(x), y |-> AsF32(y)]

InitPointer == << 0, 0 >>

Init ==
    /\ pc = "servo_new"
    /\ ret = "none"
    /\ panic = "none"
    /\ servoBorrow = 0
    /\ pointer = InitPointer
    /\ pointerBorrow = 0
    /\ winSize = RequestedSize
    /\ scale = 1
    /\ registered = {"delete"}
    /\ quit = FALSE
    /\ reply = [state |-> "empty", id |-> 0]
    /\ browser_id = 0
    /\ pending = 0
    /\ rxAlive = TRUE
    /\ txHolder = 0
    /\ wpc = [t \in Workers |-> "idle"]
    /\ hasWaker = [t \in Workers |-> FALSE]
    /\ wakes = 0
    /\ sendErr = FALSE
    /\ engineLog = << >>
    /\ ticks = << >>
    /\ navRequested = {}
    /\ navSends = [c \in NavChans |-> << >>]

\* ------------------------------------------------- the engine call site
\* RefCell::borrow_mut succeeds only on a cell that is not borrowed.
CanBorrowMut(b) == b = 0

\* RefCell::borrow succeeds unless the cell is mutably borrowed.
CanBorrow(b) == b >= 0

\* Faulty variant: the RefMut outlives the call statement.
KeepBorrow(b) == b

\* The RefMut is a temporary of the call statement: dropped when it ends.
ReleaseBorrow(b) == 0

\* The batch reaches the engine in the order of the calls.
Submit(log, batch, tick) == Append(log, [batch |-> batch, tick |-> tick])

\* `servo.borrow_mut().handle_events(batch)`; the GUI thread then runs engine
\* code until EngineReturn and resumes at `next`.
HandleEvents(batch, tick, next) ==
    IF CanBorrowMut(servoBorrow)
    THEN /\ servoBorrow' = 1
         /\ engineLog' = Submit(engineLog, batch, tick)
         /\ pc' = "in_engine"
         /\ ret' = next
         /\ panic' = panic
    ELSE /\ pc' = "aborted"
         /\ panic' = "BorrowMutError"
         /\ UNCHANGED << servoBorrow, engineLog, ret >>

\* Faulty variant: the handler returns Continue(false).
FlushStops == FALSE

\* The handler of rx.connect_recv returns Continue(true): it stays connected.
FlushContinue == TRUE

CurTick == Len(ticks)

\* The engine returns from Servo::handle_events.
EngineReturn ==
    /\ pc = "in_engine"
    /\ pc' = ret
    /\ ret' = "none"
    /\ servoBorrow' = ReleaseBorrow(servoBorrow)
    /\ registered' = IF /\ ret = "loop"
                        /\ ticks[CurTick].kind = "flush"
                        /\ ~FlushContinue
                     THEN registered \ {"recv"}
                     ELSE registered
    /\ UNCHANGED << panic, pointer, pointerBorrow, winSize, scale, quit, reply, browser_id,
                    engineLog, ticks, navRequested, navSends >>
    /\ UNCHANGED wakerVars

\* ------------------------------------------------------------- startup
\* ServoWindow::create_event_loop_waker, lines 226-228: a clone of the waker,
\* sharing the sender and its mutex; w tells whether the thread holds one.
create_event_loop_waker(w) == TRUE

\* Line 106: the engine is constructed, or construction fails.  The engine
\* spawns its worker threads here and takes a waker clone for each of them.
ServoNew ==
    /\ pc = "servo_new"
    /\ \/ /\ pc' = "connect_recv"
          /\ panic' = panic
          /\ hasWaker' = [t \in Workers |-> create_event_loop_waker(hasWaker[t])]
       \/ /\ pc' = "aborted"
          /\ panic' = "Servo::new"
          /\ hasWaker' = hasWaker
    /\ UNCHANGED << ret, servoBorrow, pointer, pointerBorrow, winSize, scale, registered, quit,
                    reply, browser_id, engineLog, ticks, navRequested, navSends >>
    /\ UNCHANGED << pending, rxAlive, txHolder, wpc, wakes, sendErr >>

\* Lines 108-114.
ConnectRecv ==
    /\ pc = "connect_recv"
    /\ registered' = registered \cup {"recv"}
    /\ pc' = "new_browser"
    /\ UNCHANGED << ret, panic, servoBorrow, pointer, pointerBorrow, winSize, scale, quit, reply,
                    browser_id, engineLog, ticks, navRequested, navSends >>
    /\ UNCHANGED wakerVars

\* Faulty variant: the error is dropped and main carries on.
UnwrapIgnored(next) == next

\* Result::unwrap on an Err panics: main never reaches its next statement.
UnwrapErr(next) == "aborted"

\* Lines 116-118: ipc::channel().unwrap(), then the NewBrowser batch.
SendNewBrowser ==
    /\ pc = "new_browser"
    /\ \/ HandleEvents(<< NewBrowser >>, 0, "recv")
       \/ /\ pc' = UnwrapErr("recv")
          /\ panic' = "ipc::channel"
          /\ UNCHANGED << ret, servoBorrow, engineLog >>
    /\ UNCHANGED << pointer, pointerBorrow, winSize, scale, registered, quit, reply, browser_id,
                    ticks, navRequested, navSends >>
    /\ UNCHANGED wakerVars

NewBrowserSubmitted ==
    \E i \in 1..Len(engineLog) : engineLog[i].batch = << NewBrowser >>

\* The engine answers the NewBrowser request on the reply channel, or drops
\* its sender without answering.
EngineReply ==
    /\ NewBrowserSubmitted
    /\ reply.state = "empty"
    /\ pc \in {"in_engine", "recv"}
    /\ \/ \E id \in ViewIds : reply' = [state |-> "value", id |-> id]
       \/ reply' = [state |-> "closed", id |-> 0]
    /\ UNCHANGED guiVars
    /\ UNCHANGED << pointer, pointerBorrow, winSize, scale, registered, quit, browser_id,
                    engineLog, ticks, navRequested, navSends >>
    /\ UNCHANGED wakerVars

\* Line 119: receiver.recv().unwrap() blocks until the reply channel holds a
\* value or is closed.
RecvBrowserId ==
    /\ pc = "recv"
    /\ reply.state # "empty"
    /\ IF reply.state = "closed"
       THEN /\ pc' = UnwrapErr("select")
            /\ panic' = "recv"
            /\ UNCHANGED << browser_id, reply >>
       ELSE /\ browser_id' = reply.id
            /\ reply' = [state |-> "taken", id |-> reply.id]
            /\ pc' = "select"
            /\ panic' = panic
    /\ UNCHANGED << ret, servoBorrow, pointer, pointerBorrow, winSize, scale, registered, quit,
                    engineLog, ticks, navRequested, navSends >>
    /\ UNCHANGED wakerVars

\* Faulty variant: the select batch carries the placeholder id.
SelectPlaceholder(id) == << SelectBrowser(0) >>

\* Line 120: the batch selecting the browser whose id was received.
SelectBatch(id) == << SelectBrowser(id) >>

SendSelectBrowser ==
    /\ pc = "select"
    /\ HandleEvents(SelectBatch(browser_id), 0, "register")
    /\ UNCHANGED << pointer, pointerBorrow, winSize, scale, registered, quit, reply, browser_id,
                    ticks, navRequested, navSends >>
    /\ UNCHANGED wakerVars

\* Lines 122-182: the pointer cell is created and the input callbacks connected.
RegisterCallbacks ==
    /\ pc = "register"
    /\ pointer' = InitPointer
    /\ pointerBorrow' = 0
    /\ registered' = registered \cup InputKinds
    /\ pc' = "main"
    /\ UNCHANGED << ret, panic, servoBorrow, winSize, scale, quit, reply,
                    browser_id, engineLog, ticks, navRequested, navSends >>
    /\ UNCHANGED wakerVars

\* Line 184: gtk::main() starts iterating the main loop.
GtkMain ==
    /\ pc = "main"
    /\ pc' = "loop"
    /\ UNCHANGED << ret, panic, servoBorrow, pointer, pointerBorrow, winSize, scale, registered,
                    quit, reply, browser_id, engineLog, ticks, navRequested, navSends >>
    /\ UNCHANGED wakerVars

\* ------------------------------------------------------ input translation
\* Faulty variant: the horizontal directions are guessed from the delta.
ScrollPhaseGuessed(dir, dy) ==
    CASE dir = "Down"  -> "Down"
      [] dir = "Up"    -> "Up"
      [] OTHER         -> IF dy > 0 THEN "Down" ELSE "Up"

\* Faulty variant: the smooth path compares the other way round.
ScrollPhaseFlipped(dir, dy) ==
    CASE dir = "Down"  -> "Down"
      [] dir = "Up"    -> "Up"
      [] dir = "Left"  -> "Cancel"
      [] dir = "Right" -> "Cancel"
      [] OTHER         -> IF dy < 0 THEN "Down" ELSE "Up"

\* Lines 151-162: the phase of a scroll event; dy is the scaled delta.
ScrollPhase(dir, dy) ==
    CASE dir = "Down"  -> "Down"
      [] dir = "Up"    -> "Up"
      [] dir = "Left"  -> "Cancel"
      [] dir = "Right" -> "Cancel"
      [] OTHER         -> IF dy > 0 THEN "Down" ELSE "Up"

\* Faulty variant: the vertical delta is inverted but not scaled.
ScaleDyInvertOnly(dy) == 0 - dy

\* Line 149: `dy * -38.0`.
ScaleDy(dy) == dy * (0 - ScrollFactor)

\* Lines 148-167: the Scroll event of a scroll callback; p is the pointer cell.
ScrollEvent(dir, dx, dy, p) ==
    [type  |-> "Scroll",
     dx    |-> AsF32(dx),
     dy    |-> AsF32(ScaleDy(dy)),
     px    |-> AsI32(p[1]),
     py    |-> AsI32(p[2]),
     phase |-> ScrollPhase(dir, ScaleDy(dy))]

\* `n as u32` of a non-negative i32 keeps the value.
AsU32(n) == n

\* ServoWindow::framebuffer_size, lines 238-242.  The products of the modelled
\* sizes and scale factors stay far below 2^32, where u32 arithmetic is exact.
framebuffer_size(size, sf) ==
    << AsU32(sf) * AsU32(size[1]), AsU32(sf) * AsU32(size[2]) >>

Resize(fb) == [type |-> "Resize", w |-> fb[1], h |-> fb[2]]

\* Faulty variant: the callback forwards the size the signal passed to it.
ResizeEventFromPayload(fb, area) == area

\* Line 138-139: the closure ignores its arguments (`|_, _, _|`) and forwards
\* what framebuffer_size() returns.
ResizeEventSize(fb, area) == fb

\* Faulty variant: every key reloads.
KeyBatchesAnyKey(k, id) == << << Reload(id) >> >>

\* Lines 176-179: the batches a key press submits (none for any key but R).
KeyBatches(k, id) == IF k = "R" THEN << << Reload(id) >> >> ELSE << >>

\* Faulty variant: the flush handler forwards an event.
FlushBatchWithEvent == << NewBrowser >>

\* The batch of the flush handler, line 111.
FlushBatch == << >>

\* --------------------------------------------------------------- ticks
\* Faulty variant: callbacks are dispatched while main waits in recv() as well.
DispatchableInRecv(h) == pc \in {"loop", "recv"} /\ h \in registered

\* Faulty variant: a callback is dispatched while the motion callback is running.
DispatchableNested(h) == pc \in {"loop", "motion_fwd"} /\ h \in registered

\* The main loop runs one callback at a time, to completion.
Dispatchable(h) == pc = "loop" /\ h \in registered

\* The close request destroys the window (Inhibit(false), line 67): its
\* widgets emit no input signal afterwards.
WindowAlive == ~quit

NumInput == Cardinality({i \in 1..Len(ticks) : ticks[i].kind \in InputKinds})

InputAllowed == WindowAlive /\ NumInput < MaxTicks

\* Faulty variant: the motion callback does not store the position.
KeepPosition(old, x, y) == old

\* Line 128: `*pointer.borrow_mut() = (x, y)`.
StorePosition(old, x, y) == << x, y >>

\* Lines 127-128: the motion callback stores the position in the pointer cell.
MotionNotify(x, y) ==
    /\ Dispatchable("motion")
    /\ InputAllowed
    /\ ticks' = Append(ticks, [kind |-> "motion", x |-> x, y |-> y])
    /\ IF CanBorrowMut(pointerBorrow)
       THEN /\ pointer' = StorePosition(pointer, x, y)
            /\ pointerBorrow' = ReleaseBorrow(0 - 1)
            /\ pc' = "motion_fwd"
            /\ panic' = panic
       ELSE /\ pc' = "aborted"
            /\ panic' = "BorrowMutError"
            /\ UNCHANGED << pointer, pointerBorrow >>
    /\ UNCHANGED << ret, servoBorrow, winSize, scale, registered, quit,
                    reply, browser_id, engineLog, navRequested, navSends >>
    /\ UNCHANGED wakerVars

\* Lines 129-130: ... and then forwards the move to the engine.
MotionForward ==
    /\ pc = "motion_fwd"
    /\ HandleEvents(<< MouseWindowMoveEventClass(ticks[CurTick].x, ticks[CurTick].y) >>,
                    CurTick, "loop")
    /\ UNCHANGED << pointer, pointerBorrow, winSize, scale, registered, quit, reply, browser_id,
                    ticks, navRequested, navSends >>
    /\ UNCHANGED wakerVars

\* Lines 138-141: the toolkit has given the window its new geometry and calls
\* the resize callback, which reads the geometry from the window.
\* area is the size the signal passes to the callback.
ResizeCallback(size, sf, area) ==
    /\ Dispatchable("resize")
    /\ InputAllowed
    /\ winSize' = size
    /\ scale' = sf
    /\ ticks' = Append(ticks, [kind |-> "resize", size |-> size, sf |-> sf,
                                area |-> area])
    /\ HandleEvents(<< Resize(ResizeEventSize(framebuffer_size(winSize', scale'), area)) >>,
                    Len(ticks'), "loop")
    /\ UNCHANGED << pointer, pointerBorrow, registered, quit, reply, browser_id, navRequested,
                    navSends >>
    /\ UNCHANGED wakerVars

\* Lines 147-170.
ScrollCallback(dir, dx, dy) ==
    /\ Dispatchable("scroll")
    /\ InputAllowed
    /\ ticks' = Append(ticks, [kind |-> "scroll", dir |-> dir, dx |-> dx, dy |-> dy])
    /\ IF CanBorrow(pointerBorrow)
       THEN /\ pointerBorrow' = ReleaseBorrow(pointerBorrow + 1)
            /\ HandleEvents(<< ScrollEvent(dir, dx, dy, pointer) >>, Len(ticks'), "loop")
       ELSE /\ pc' = "aborted"
            /\ panic' = "BorrowError"
            /\ UNCHANGED << ret, servoBorrow, engineLog, pointerBorrow >>
    /\ UNCHANGED << pointer, winSize, scale, registered, quit, reply, browser_id,
                    navRequested, navSends >>
    /\ UNCHANGED wakerVars

\* Lines 175-181.
KeyPress(k) ==
    /\ Dispatchable("key")
    /\ InputAllowed
    /\ ticks' = Append(ticks, [kind |-> "key", key |-> k])
    /\ IF KeyBatches(k, browser_id) # << >>
       THEN HandleEvents(KeyBatches(k, browser_id)[1], Len(ticks'), "loop")
       ELSE UNCHANGED << pc, ret, panic, servoBorrow, engineLog >>
    /\ UNCHANGED << pointer, pointerBorrow, winSize, scale, registered, quit, reply, browser_id,
                    navRequested, navSends >>
    /\ UNCHANGED wakerVars

\* Lines 110-113: the channel is readable, the main loop calls the receive
\* callback.  How many of the pending signals one callback consumes is decided
\* by the channel library: any number from one to all of them.
FlushTick ==
    /\ Dispatchable("recv")
    /\ pending > 0
    /\ \E k \in 1..pending : pending' = pending - k
    /\ ticks' = Append(ticks, [kind |-> "flush"])
    /\ HandleEvents(FlushBatch, Len(ticks'), "loop")
    /\ UNCHANGED << pointer, pointerBorrow, winSize, scale, registered, quit, reply, browser_id,
                    navRequested, navSends >>
    /\ UNCHANGED << rxAlive, txHolder, wpc, hasWaker, wakes, sendErr >>

\* Lines 65-68: the window's close request.
DeleteEvent ==
    /\ Dispatchable("delete")
    /\ WindowAlive
    /\ quit' = TRUE
    /\ UNCHANGED << ticks, pointer, pointerBorrow, winSize, scale, registered, reply, browser_id,
                    engineLog, navRequested, navSends >>
    /\ UNCHANGED guiVars
    /\ UNCHANGED wakerVars

\* Faulty variant: main enters gtk::main() again after it has returned.
GtkMainAgain == "main"

\* Line 185: gtk::main() is the last statement of main.
AfterGtkMain == "exited"

\* gtk::main() returns once gtk::main_quit() has been called, line 184.
MainLoopExit ==
    /\ pc = "loop"
    /\ quit
    /\ pc' = AfterGtkMain
    /\ UNCHANGED << ret, panic, servoBorrow, pointer, pointerBorrow, winSize, scale, registered,
                    quit, reply, browser_id, engineLog, ticks, navRequested, navSends >>
    /\ UNCHANGED wakerVars

\* Line 185: main returns and its locals, the receiver among them, are dropped.
MainReturn ==
    /\ pc = "exited"
    /\ pc' = "done"
    /\ rxAlive' = FALSE
    /\ UNCHANGED << ret, panic, servoBorrow, pointer, pointerBorrow, winSize, scale, registered,
                    quit, reply, browser_id, engineLog, ticks, navRequested, navSends >>
    /\ UNCHANGED << pending, txHolder, wpc, hasWaker, wakes, sendErr >>

\* ------------------------------------------------------- window adapter
\* Faulty variant: the adapter denies the navigation.
AllowNavigationDenies == << FALSE >>

\* ServoWindow::allow_navigation, line 267: the values sent on the channel.
AllowNavigationSends == << TRUE >>

\* The engine, inside an engine call on the GUI thread, asks whether a
\* navigation may proceed; `.ok()` discards the result of the send.
AllowNavigation(c) ==
    /\ pc = "in_engine"
    /\ c \notin navRequested
    /\ navRequested' = navRequested \cup {c}
    /\ navSends' = [navSends EXCEPT ![c] = @ \o AllowNavigationSends]
    /\ UNCHANGED << pointer, pointerBorrow, winSize, scale, registered, quit, reply, browser_id,
                    engineLog, ticks >>
    /\ UNCHANGED guiVars
    /\ UNCHANGED wakerVars

\* ---------------------------------------------------------------- waker
\* GtkEventLoopWaker::wake, `self.tx.lock()`: a worker takes the mutex all
\* clones share.
MutexFree(h) == h = 0

\* A worker calls wake() on its clone and reaches `self.tx.lock()`.
WakeCall(t) ==
    /\ hasWaker[t]
    /\ wpc[t] = "idle"
    /\ wakes < MaxWakes
    /\ wpc' = [wpc EXCEPT ![t] = "lock"]
    /\ wakes' = wakes + 1
    /\ UNCHANGED << pending, rxAlive, txHolder, hasWaker, sendErr >>
    /\ UNCHANGED guiVars
    /\ UNCHANGED << pointer, pointerBorrow, winSize, scale, registered, quit, reply, browser_id,
                    engineLog, ticks, navRequested, navSends >>

\* `lock()` returns the guard once no other clone holds the mutex.
WakeLock(t) ==
    /\ wpc[t] = "lock"
    /\ MutexFree(txHolder)
    /\ txHolder' = t
    /\ wpc' = [wpc EXCEPT ![t] = "send"]
    /\ UNCHANGED << pending, rxAlive, hasWaker, wakes, sendErr >>
    /\ UNCHANGED guiVars
    /\ UNCHANGED << pointer, pointerBorrow, winSize, scale, registered, quit, reply, browser_id,
                    engineLog, ticks, navRequested, navSends >>

\* Faulty variant: the guard is not dropped when wake() returns.
GuardLeaked(h) == h

\* The MutexGuard is a temporary of the statement at line 200: dropped at its
\* end, which unlocks the mutex.
GuardDropped(h) == 0

\* `.send()`, then the guard is dropped.  With the receiver gone the signal
\* cannot be queued; whether the library reports that is the library's choice.
WakeSend(t) ==
    /\ wpc[t] = "send"
    /\ IF rxAlive
       THEN /\ pending' = pending + 1
            /\ sendErr' = sendErr
       ELSE /\ pending' = pending
            /\ sendErr' \in {sendErr, TRUE}
    /\ txHolder' = GuardDropped(txHolder)
    /\ wpc' = [wpc EXCEPT ![t] = "idle"]
    /\ UNCHANGED << rxAlive, hasWaker, wakes >>
    /\ UNCHANGED guiVars
    /\ UNCHANGED << pointer, pointerBorrow, winSize, scale, registered, quit, reply, browser_id,
                    engineLog, ticks, navRequested, navSends >>

\* ------------------------------------------------------- specification
Next ==
    \/ ServoNew
    \/ ConnectRecv
    \/ SendNewBrowser
    \/ EngineReply
    \/ RecvBrowserId
    \/ SendSelectBrowser
    \/ RegisterCallbacks
    \/ GtkMain
    \/ EngineReturn
    \/ \E p \in Positions : MotionNotify(p[1], p[2])
    \/ MotionForward
    \/ \E sf \in Scales : ResizeCallback(ResizedSize, sf, RequestedSize)
    \/ \E dir \in {"Down", "Smooth"} : ScrollCallback(dir, 0, MaxDelta)
    \/ \E k \in Keys : KeyPress(k)
    \/ FlushTick
    \/ DeleteEvent
    \/ MainLoopExit
    \/ MainReturn
    \/ \E c \in NavChans : AllowNavigation(c)
    \/ \E t \in Workers : WakeCall(t)
    \/ \E t \in Workers : WakeLock(t)
    \/ \E t \in Workers : WakeSend(t)

Spec == Init /\ [][Next]_vars

\* The GUI thread keeps running (main proceeds, the main loop dispatches a
\* callback that is ready and returns from gtk::main once asked to), engine
\* calls return, and a worker inside wake() finishes it.  Input, close
\* requests, engine replies and new wake() calls are the environment's choice.
Fairness ==
    /\ WF_vars(ConnectRecv)
    /\ WF_vars(SendNewBrowser)
    /\ WF_vars(RecvBrowserId)
    /\ WF_vars(SendSelectBrowser)
    /\ WF_vars(RegisterCallbacks)
    /\ WF_vars(GtkMain)
    /\ WF_vars(EngineReturn)
    /\ WF_vars(MotionForward)
    /\ WF_vars(FlushTick)
    /\ WF_vars(MainLoopExit)
    /\ WF_vars(MainReturn)
    /\ \A t \in Workers : WF_vars(WakeLock(t))
    /\ \A t \in Workers : WF_vars(WakeSend(t))

FairSpec == Spec /\ Fairness

\* The machine in an environment without native input: start-up, wake() calls
\* from the workers, flush ticks and the close request.
NextWake ==
    \/ ServoNew
    \/ ConnectRecv
    \/ SendNewBrowser
    \/ EngineReply
    \/ RecvBrowserId
    \/ SendSelectBrowser
    \/ RegisterCallbacks
    \/ GtkMain
    \/ EngineReturn
    \/ FlushTick
    \/ DeleteEvent
    \/ MainLoopExit
    \/ MainReturn
    \/ \E t \in Workers : WakeCall(t)
    \/ \E t \in Workers : WakeLock(t)
    \/ \E t \in Workers : WakeSend(t)

\* Only the workers are scheduled fairly: the GUI thread may stay for ever
\* where it is, blocked in recv() or inside an engine call.
WorkerFairness ==
    /\ \A t \in Workers : WF_vars(WakeLock(t))
    /\ \A t \in Workers : WF_vars(WakeSend(t))

WakerSpec == Init /\ [][NextWake]_vars /\ WorkerFairness

\* The same environment with the GUI thread scheduled fairly as well.
WakeFairSpec == Init /\ [][NextWake]_vars /\ Fairness

\* ------------------------------------------------------------ vocabulary
NumFlush == Cardinality({i \in 1..Len(ticks) : ticks[i].kind = "flush"})

\* The main loop is running: gtk::main has been entered and not been asked
\* to return.
Running == pc \in {"loop", "motion_fwd"} \/ (pc = "in_engine" /\ ret = "loop")

\* C1: while the main loop runs, a wake signal that is pending is followed by
\* a further flush tick (an empty handle_events batch), unless the loop is
\* asked to quit first; and the flush handler, once connected, stays connected.
WakeLeadsToFlush ==
    /\ [](pc \notin {"servo_new", "connect_recv", "aborted"} => "recv" \in registered)
    /\ \A n \in 0..MaxWakes :
          (Running /\ pending > 0 /\ NumFlush = n) ~> (NumFlush > n \/ quit)

\* Two flush ticks have run: a wake issued after a flush was served as well.
WitnessLaterWakeFlushed ==
    /\ NumFlush >= 2
    /\ engineLog[Len(engineLog)].batch = << >>
    /\ "recv" \in registered

\* The ticks of one kind dispatched so far.
NumKind(k) == Cardinality({i \in 1..Len(ticks) : ticks[i].kind = k})

\* The machine in an environment that moves the pointer at most MaxMoves times
\* and then scrolls at most MaxScrolls times, with every direction and delta,
\* among them a delta that is not an f32 value: the scroll translation on its
\* whole domain.
NextScroll ==
    \/ ServoNew
    \/ ConnectRecv
    \/ SendNewBrowser
    \/ EngineReply
    \/ RecvBrowserId
    \/ SendSelectBrowser
    \/ RegisterCallbacks
    \/ GtkMain
    \/ EngineReturn
    \/ /\ NumKind("scroll") = 0
       /\ NumKind("motion") < MaxMoves
       /\ \E p \in Positions : MotionNotify(p[1], p[2])
    \/ MotionForward
    \/ /\ NumKind("scroll") < MaxScrolls
       /\ \E dir \in Directions, dx \in (0..MaxDelta) \cup {FineDelta},
             dy \in Deltas \cup {FineDelta} :
              ScrollCallback(dir, dx, dy)
    \/ DeleteEvent
    \/ MainLoopExit
    \/ MainReturn

ScrollSpec == Init /\ [][NextScroll]_vars

\* The environment of the geometry claims: start-up, then at most MaxResizes
\* resizes over every combination of logical size, scale factor and signal
\* payload.
NextResize ==
    \/ ServoNew
    \/ ConnectRecv
    \/ SendNewBrowser
    \/ EngineReply
    \/ RecvBrowserId
    \/ SendSelectBrowser
    \/ RegisterCallbacks
    \/ GtkMain
    \/ EngineReturn
    \/ /\ NumKind("resize") < MaxResizes
       /\ \E size \in WindowSizes, sf \in Scales, area \in AreaSizes :
              ResizeCallback(size, sf, area)
    \/ DeleteEvent
    \/ MainLoopExit
    \/ MainReturn

ResizeSpec == Init /\ [][NextResize]_vars

LogIdx == 1..Len(engineLog)
TickIdx == 1..Len(ticks)

\* The event types that come from native input.
InputTypes == {"MouseWindowMoveEventClass", "Scroll", "Resize", "Reload"}

HasType(e, types) == e.batch # << >> /\ e.batch[1].type \in types

\* The calls a tick has made to handle_events.
CallsOf(i) == {j \in LogIdx : engineLog[j].tick = i}

\* A tick whose callback has not yet reached its handle_events call.
InProgress(i) == i = Len(ticks) /\ pc = "motion_fwd"

\* C3: an input event is in the engine's log only after the NewBrowser batch,
\* the receipt of the reply and the SelectBrowser batch with the received id,
\* all completed; a Reload carries the received id, never the placeholder.
StartupPrecedesInput ==
    \A j \in LogIdx :
        HasType(engineLog[j], InputTypes) =>
            /\ j >= 3
            /\ engineLog[1].batch = << NewBrowser >>
            /\ reply.state = "taken"
            /\ reply.id \in ViewIds
            /\ engineLog[2].batch = << [type |-> "SelectBrowser", id |-> reply.id] >>
            /\ pc \in {"loop", "motion_fwd", "in_engine", "exited", "done"}
            /\ pc = "in_engine" => ret = "loop"
            /\ engineLog[j].batch[1].type = "Reload" =>
                   engineLog[j].batch[1].id = reply.id

WitnessInputAfterStartup ==
    /\ \E j \in LogIdx : HasType(engineLog[j], {"Reload"})
    /\ \E j \in LogIdx : HasType(engineLog[j], {"MouseWindowMoveEventClass"})
    /\ reply.id = MaxView

\* A tick that calls handle_events: every tick but a key press of another key.
Calling(i) == ticks[i].kind # "key" \/ ticks[i].key = "R"

\* C4: the engine's log after the two startup batches is exactly the sequence
\* of the calling ticks, one batch per tick, in dispatch order.
OrderPreserved ==
    /\ \A j \in LogIdx :
          IF j <= 2 /\ engineLog[j].tick = 0
          THEN TRUE
          ELSE /\ j >= 3
               /\ engineLog[j].tick \in TickIdx
               /\ Calling(engineLog[j].tick)
               /\ Cardinality({i \in 1..engineLog[j].tick : Calling(i)}) = j - 2
    /\ \A i \in TickIdx : (Calling(i) /\ ~InProgress(i)) => CallsOf(i) # {}
    /\ \A i \in TickIdx :
          \A j \in CallsOf(i) :
              CASE ticks[i].kind = "flush"  -> engineLog[j].batch = << >>
                [] ticks[i].kind = "motion" ->
                       /\ HasType(engineLog[j], {"MouseWindowMoveEventClass"})
                       /\ engineLog[j].batch[1].x = ticks[i].x
                       /\ engineLog[j].batch[1].y = ticks[i].y
                [] ticks[i].kind = "scroll" -> HasType(engineLog[j], {"Scroll"})
                [] ticks[i].kind = "resize" -> HasType(engineLog[j], {"Resize"})
                [] ticks[i].kind = "key"    -> HasType(engineLog[j], {"Reload"})

\* A motion, a flush and a scroll tick reached the engine, in some order, with
\* a key press of another key among the ticks.
WitnessInterleavedTicks ==
    /\ \E j \in LogIdx : HasType(engineLog[j], {"MouseWindowMoveEventClass"})
    /\ \E j \in LogIdx : HasType(engineLog[j], {"Scroll"})
    /\ \E j \in LogIdx : j > 2 /\ engineLog[j].batch = << >>
    /\ \E i \in TickIdx : ~Calling(i)

\* C5: the engine cell is borrowed exactly while the GUI thread is inside a
\* handle_events call, at most once, and no borrow_mut ever fails.
ExclusiveEngineAccess ==
    /\ servoBorrow \in {0, 1}
    /\ servoBorrow = 1 <=> pc = "in_engine"
    /\ panic # "BorrowMutError"

\* A tick holds the borrow after an earlier tick held and released it.
WitnessTickBorrows ==
    /\ servoBorrow = 1
    /\ ret = "loop"
    /\ Len(engineLog) >= 4

\* The motion ticks dispatched before tick i.
MotionsBefore(i) == {k \in 1..(i - 1) : ticks[k].kind = "motion"}

\* The coordinates (half pixels) of the most recent motion tick before tick i,
\* (0, 0) when there is none.
LastMotion(i) ==
    IF MotionsBefore(i) = {}
    THEN << 0, 0 >>
    ELSE LET k == CHOOSE m \in MotionsBefore(i) : \A n \in MotionsBefore(i) : n <= m
         IN  << ticks[k].x, ticks[k].y >>

\* A motion tick has stored its position when it comes to forward its event.
MotionWritesFirst ==
    pc = "motion_fwd" => pointer = << ticks[Len(ticks)].x, ticks[Len(ticks)].y >>

\* C6 as stated: the pointer of a Scroll event (whole pixels) equals the
\* coordinates of the most recent motion tick, (0, 0) if none; and a motion
\* tick writes the pointer state before it forwards its event.
ScrollCarriesLastPointer ==
    /\ \A i \in TickIdx :
          ticks[i].kind = "scroll" =>
              \A j \in CallsOf(i) :
                  /\ 2 * engineLog[j].batch[1].px = LastMotion(i)[1]
                  /\ 2 * engineLog[j].batch[1].py = LastMotion(i)[2]
    /\ MotionWritesFirst

\* C6, amended: the pointer of a Scroll event is the integer part of the
\* coordinates of the most recent motion tick, (0, 0) if none; and a motion
\* tick writes the pointer state before it forwards its event.
ScrollCarriesTruncatedPointer ==
    /\ \A i \in TickIdx :
          ticks[i].kind = "scroll" =>
              /\ CallsOf(i) # {}
              /\ \A j \in CallsOf(i) :
                  LET e == engineLog[j].batch[1]
                      m == LastMotion(i)
                  IN  /\ 2 * e.px <= m[1] /\ m[1] < 2 * e.px + 2
                      /\ 2 * e.py <= m[2] /\ m[2] < 2 * e.py + 2
    /\ MotionWritesFirst

\* A scroll tick ran after two motion ticks that reported different positions.
WitnessLastWriterWins ==
    \E i \in TickIdx :
        /\ ticks[i].kind = "scroll"
        /\ \E a, b \in MotionsBefore(i) :
              a < b /\ << ticks[a].x, ticks[a].y >> # << ticks[b].x, ticks[b].y >>

\* C7: every navigation request the adapter received got exactly one value on
\* its channel, the value true; no channel got anything without a request.
AllowNavigationRepliesOnce ==
    \A c \in NavChans :
        IF c \in navRequested THEN navSends[c] = << TRUE >> ELSE navSends[c] = << >>

\* A navigation request was answered during a tick, with a wake pending.
WitnessNavigationAnswered ==
    /\ \E c \in NavChans : c \in navRequested /\ Len(navSends[c]) = 1
    /\ ticks # << >>
    /\ pending > 0

\* C8: a key press of R has made exactly one call, with the single event
\* Reload of the id received at startup; a key press of another key has made
\* none; and no key press has made the GUI thread fail.
ReloadBinding ==
    \A i \in TickIdx :
        ticks[i].kind = "key" =>
            /\ panic = "none"
            /\ IF ticks[i].key = "R"
               THEN /\ Cardinality(CallsOf(i)) = 1
                    /\ reply.state = "taken"
                    /\ \A j \in CallsOf(i) :
                          engineLog[j].batch = << [type |-> "Reload", id |-> reply.id] >>
               ELSE CallsOf(i) = {}

\* Both kinds of key press happened, after an earlier tick.
WitnessReloadAndOtherKey ==
    /\ \E i \in TickIdx : i > 1 /\ ticks[i].kind = "key" /\ ticks[i].key = "R"
    /\ \E i \in TickIdx : ticks[i].kind = "key" /\ ticks[i].key # "R"
    /\ reply.id = MaxView

TickKinds == {"motion", "scroll", "resize", "key", "flush"}

ExactlyOneCall(i) ==
    /\ Cardinality(CallsOf(i)) = 1
    /\ \A j \in CallsOf(i) :
          /\ Len(engineLog[j].batch) <= 1
          /\ ticks[i].kind = "flush" => engineLog[j].batch = << >>

\* C9 as stated: every tick of the running loop, a key press of any key
\* included, has made exactly one call, with at most one event, and a flush
\* tick the empty batch.
OneCallPerTick ==
    \A i \in TickIdx :
        (ticks[i].kind \in TickKinds /\ ~InProgress(i)) => ExactlyOneCall(i)

\* C9, amended: the same for every tick but a key press of a key other than
\* R, which makes no call at all.
OneCallPerCallingTick ==
    \A i \in TickIdx :
        (ticks[i].kind \in TickKinds /\ ~InProgress(i)) =>
            IF ticks[i].kind = "key" /\ ticks[i].key # "R"
            THEN CallsOf(i) = {}
            ELSE ExactlyOneCall(i)

\* A flush tick, a key press of R and a key press of another key have run.
WitnessCallShapes ==
    /\ \E i \in TickIdx : ticks[i].kind = "flush"
    /\ \E i \in TickIdx : ticks[i].kind = "key" /\ ticks[i].key = "R"
    /\ \E i \in TickIdx : ticks[i].kind = "key" /\ ticks[i].key # "R"

SignRule(e) ==
    /\ e.dy > 0 => e.phase = "Down"
    /\ e.dy < 0 => e.phase = "Up"

\* C10 as stated: for the discrete directions Down and Up and for the smooth
\* path, the phase follows the sign of the scaled, inverted vertical delta.
PhaseFollowsSign ==
    \A i \in TickIdx :
        (ticks[i].kind = "scroll" /\ ticks[i].dir \in {"Down", "Up", "Smooth"}) =>
            \A j \in CallsOf(i) : SignRule(engineLog[j].batch[1])

\* C10, amended: on the smooth path the phase follows the sign of the scaled,
\* inverted vertical delta; for the discrete directions Down and Up the phase
\* is the direction itself, whatever the delta.
PhaseFollowsSignWhenSmooth ==
    \A i \in TickIdx :
        ticks[i].kind = "scroll" =>
            \A j \in CallsOf(i) :
                LET e == engineLog[j].batch[1]
                IN  /\ ticks[i].dir = "Smooth" => SignRule(e)
                    /\ ticks[i].dir \in {"Down", "Up"} => e.phase = ticks[i].dir

\* A smooth scroll whose scaled, inverted delta is positive reached the engine.
WitnessSmoothPositive ==
    \E i \in TickIdx :
        /\ ticks[i].kind = "scroll"
        /\ ticks[i].dir = "Smooth"
        /\ \E j \in CallsOf(i) : engineLog[j].batch[1].dy > 0

\* v is the f32 value nearest to x.
NearestF32(v, x) ==
    /\ v % Ulp(Abs(v)) = 0
    /\ 2 * Abs(v - x) <= Ulp(Abs(x))

\* C11 as stated: for every direction the Scroll event carries the delta
\* (dx, -38 * dy) of the toolkit's (dx, dy).
ScrollCarriesScaledDelta ==
    \A i \in TickIdx :
        ticks[i].kind = "scroll" =>
            \A j \in CallsOf(i) :
                /\ engineLog[j].batch[1].dx = ticks[i].dx
                /\ engineLog[j].batch[1].dy = 0 - (38 * ticks[i].dy)

\* C11, amended: for every direction the Scroll event carries the f32 values
\* nearest to dx and to -38 * dy, which are dx and -38 * dy themselves when
\* these have at most 24 significant bits; the toolkit delta (0, 1) with
\* direction Down gives the delta (0, -38) and the phase Down.
ScrollCarriesRoundedDelta ==
    \A i \in TickIdx :
        ticks[i].kind = "scroll" =>
            \A j \in CallsOf(i) :
                LET e  == engineLog[j].batch[1]
                    sx == ticks[i].dx
                    sy == 0 - (38 * ticks[i].dy)
                IN  /\ e.type = "Scroll"
                    /\ NearestF32(e.dx, sx)
                    /\ NearestF32(e.dy, sy)
                    /\ Abs(sx) <= F32Exact => e.dx = sx
                    /\ Abs(sy) <= F32Exact => e.dy = sy
                    /\ (ticks[i].dir = "Down" /\ sx = 0 /\ ticks[i].dy = 1) =>
                           (e.dx = 0 /\ e.dy = 0 - 38 /\ e.phase = "Down")

\* The toolkit delta (0, 1) with direction Down has been forwarded.
WitnessDeltaForwarded ==
    /\ \E i \in TickIdx :
           /\ ticks[i].kind = "scroll" /\ ticks[i].dir = "Down"
           /\ ticks[i].dx = 0 /\ ticks[i].dy = 1
           /\ CallsOf(i) # {}
    /\ pc = "loop"

\* The resize ticks dispatched so far.
ResizeTicks == {i \in TickIdx : ticks[i].kind = "resize"}

\* C12: what framebuffer_size() returns is the scale factor times the logical
\* width and height the window has now, which after any sequence of resizes are
\* those of the last resize; the Resize event of a resize tick carries that
\* size, not the size the signal passed to the callback; logical 1024x768 at
\* scale factor 2 gives 2048x1536.
ResizeCarriesLiveFramebuffer ==
    /\ framebuffer_size(winSize, scale) = << scale * winSize[1], scale * winSize[2] >>
    /\ \A i \in ResizeTicks :
           /\ (\A k \in ResizeTicks : k <= i) =>
                  (winSize = ticks[i].size /\ scale = ticks[i].sf)
           /\ \A j \in CallsOf(i) :
                  /\ engineLog[j].batch =
                         << [type |-> "Resize",
                             w |-> ticks[i].sf * ticks[i].size[1],
                             h |-> ticks[i].sf * ticks[i].size[2]] >>
                  /\ (ticks[i].size = << 1024, 768 >> /\ ticks[i].sf = 2) =>
                         (engineLog[j].batch[1].w = 2048 /\ engineLog[j].batch[1].h = 1536)

\* Two resizes to different geometries have been forwarded, the second to
\* logical 1024x768 at scale factor 2 with a signal payload of another size.
WitnessSecondResizeLive ==
    \E i, k \in ResizeTicks :
        /\ i < k
        /\ << ticks[i].size, ticks[i].sf >> # << ticks[k].size, ticks[k].sf >>
        /\ ticks[k].size = << 1024, 768 >>
        /\ ticks[k].sf = 2
        /\ ticks[k].area # << 2048, 1536 >>
        /\ CallsOf(i) # {}
        /\ CallsOf(k) # {}
        /\ pc = "loop"

\* The batches of the engine's log that hold an event of the given type.
Entries(type) == {j \in LogIdx : HasType(engineLog[j], {type})}

\* Start-up has passed the SelectBrowser call.
ViewSelected ==
    \/ pc \in {"register", "main", "loop", "motion_fwd", "exited", "done"}
    \/ pc = "in_engine" /\ ret \in {"register", "loop"}

\* C13: NewBrowser is submitted once, the reply channel is read once,
\* SelectBrowser is submitted once and with the id that was received, the id
\* never changes once received, and every Reload names it.
ExactlyOneView ==
    /\ [](/\ Cardinality(Entries("NewBrowser")) <= 1
          /\ Cardinality(Entries("SelectBrowser")) <= 1
          /\ ViewSelected =>
                 /\ Cardinality(Entries("NewBrowser")) = 1
                 /\ Cardinality(Entries("SelectBrowser")) = 1
                 /\ reply.state = "taken"
                 /\ browser_id \in ViewIds
                 /\ browser_id = reply.id
                 /\ \A j \in Entries("SelectBrowser") : engineLog[j].batch[1].id = browser_id
          /\ \A j \in Entries("Reload") : engineLog[j].batch[1].id = browser_id)
    /\ [][(reply.state = "taken") => (reply' = reply)]_vars
    /\ [][(browser_id \in ViewIds) => (browser_id' = browser_id)]_vars

\* Two reloads have reached the engine and the session has ended.
WitnessTwoReloads ==
    /\ Cardinality(Entries("Reload")) >= 2
    /\ pc = "done"

\* C14: every wake() call, from any clone on any thread, takes the mutex,
\* sends and returns; the mutex is only ever held by a caller that is about
\* to send, so no caller waits on anything but another caller's send, whatever
\* the GUI thread is doing.
WakeReturns ==
    /\ []((\E t \in Workers : wpc[t] = "lock") =>
              (MutexFree(txHolder) \/ (txHolder \in Workers /\ wpc[txHolder] = "send")))
    /\ \A t \in Workers : (wpc[t] # "idle") ~> (wpc[t] = "idle")

\* Every worker's call has returned with its signal queued while the GUI
\* thread is still blocked waiting for the reply to NewBrowser.
WitnessWakesDuringRecv ==
    /\ pc = "recv"
    /\ reply.state = "empty"
    /\ wakes = MaxWakes
    /\ pending = MaxWakes
    /\ \A t \in Workers : wpc[t] = "idle"

\* The panics of start-up: engine construction, creation of the reply channel,
\* and the receipt of the reply.
StartupPanics == {"Servo::new", "ipc::channel", "recv"}

\* Nothing of the running session exists: no input callback is connected, no
\* SelectBrowser and no input event has been forwarded, gtk::main has not
\* been entered.
NeverRan ==
    /\ registered \cap InputKinds = {}
    /\ Entries("SelectBrowser") = {}
    /\ \A j \in LogIdx : ~HasType(engineLog[j], InputTypes)
    /\ ticks = << >>
    /\ pc \in {"servo_new", "connect_recv", "new_browser", "in_engine", "recv", "aborted"}
    /\ pc = "in_engine" => ret = "recv"

\* C16: when engine construction fails, the reply channel cannot be created,
\* or the reply has not arrived as a value, the session is not running, and a
\* failed start-up stays failed.
FatalStartupStops ==
    /\ [](panic \in StartupPanics => (pc = "aborted" /\ NeverRan))
    /\ [](reply.state # "taken" => NeverRan)
    /\ [][(pc = "aborted") => (pc' = "aborted")]_vars

\* The engine dropped the reply channel without answering and main panicked
\* in recv().unwrap(), with a wake signal queued.
WitnessReplyDropped ==
    /\ panic = "recv"
    /\ reply.state = "closed"
    /\ pc = "aborted"
    /\ pending > 0

\* The life-cycle state of the session: 0 Uninitialized (main is before
\* gtk::main), 1 Running, 2 ShuttingDown (the close request has been made, or
\* gtk::main has returned), 3 start-up failed.
LifeCycle ==
    IF pc = "aborted" THEN 3
    ELSE IF pc \in {"exited", "done"} \/ (Running /\ quit) THEN 2
    ELSE IF Running THEN 1
    ELSE 0

\* LifeCycle in the next state.
LifeCycleNext ==
    IF pc' = "aborted" THEN 3
    ELSE IF pc' \in {"exited", "done"} THEN 2
    ELSE IF pc' \in {"loop", "motion_fwd"} \/ (pc' = "in_engine" /\ ret' = "loop")
         THEN (IF quit' THEN 2 ELSE 1)
    ELSE 0

\* C17: the life cycle only moves forward; a close request made while running
\* leads to the return of gtk::main; the close request is made between engine
\* calls and a call in flight ends only by returning, with its batch still in
\* the log; once gtk::main has returned no batch is submitted.
SessionLifeCycle ==
    /\ [][LifeCycleNext >= LifeCycle]_vars
    /\ (Running /\ quit) ~> (pc \in {"exited", "done"})
    /\ [][(quit' # quit) => (pc = "loop" /\ pc' = "loop" /\ engineLog' = engineLog)]_vars
    /\ [][(pc = "in_engine") =>
             (pc' = "in_engine" \/ (pc' = ret /\ engineLog' = engineLog))]_vars
    /\ [][(pc \in {"exited", "done"}) => (engineLog' = engineLog)]_vars

\* The close request was made while a wake signal was pending with ticks
\* forwarded before it; gtk::main has returned and main has ended.
WitnessClosedAfterTicks ==
    /\ quit
    /\ pc = "done"
    /\ Len(ticks) >= 2
    /\ NumFlush >= 1

\* C18: at the suspension points of the GUI thread (blocked in recv() for the
\* reply to NewBrowser, or back in the main loop between callbacks) neither
\* the engine cell nor the pointer cell is borrowed; the engine cell becomes
\* borrowed only by the step that submits a batch and is released by the
\* return of that same call.
BorrowScoped ==
    /\ [](pc \in {"recv", "loop"} => (servoBorrow = 0 /\ pointerBorrow = 0))
    /\ [][(servoBorrow' # servoBorrow) =>
             \/ /\ servoBorrow = 0
                /\ Len(engineLog') = Len(engineLog) + 1
                /\ pc' = "in_engine"
             \/ /\ pc = "in_engine"
                /\ pc' = ret
                /\ servoBorrow' = 0
                /\ engineLog' = engineLog]_vars

\* The main loop is idle after a motion tick, which wrote the pointer cell,
\* and a scroll tick, which read it, have both forwarded their events.
WitnessIdleAfterPointerUse ==
    /\ pc = "loop"
    /\ \E i, k \in TickIdx :
           /\ ticks[i].kind = "motion"
           /\ ticks[k].kind = "scroll"
           /\ CallsOf(i) # {}
           /\ CallsOf(k) # {}

\* C19: a scroll tick with direction Left or Right forwards exactly one batch
\* of exactly one Scroll event, whose phase is Cancel whatever the delta,
\* whose delta is the transformed toolkit delta and whose pointer is that of
\* the pointer cell (the last motion before the tick); no panic results.
HorizontalScrollCancels ==
    \A i \in TickIdx :
        (ticks[i].kind = "scroll" /\ ticks[i].dir \in {"Left", "Right"}) =>
            /\ Cardinality(CallsOf(i)) = 1
            /\ panic = "none"
            /\ pc # "aborted"
            /\ \A j \in CallsOf(i) :
                   LET e == engineLog[j].batch[1]
                       m == LastMotion(i)
                   IN  /\ Len(engineLog[j].batch) = 1
                       /\ e.type = "Scroll"
                       /\ e.phase = "Cancel"
                       /\ NearestF32(e.dx, ticks[i].dx)
                       /\ NearestF32(e.dy, 0 - (38 * ticks[i].dy))
                       /\ 2 * e.px <= m[1] /\ m[1] < 2 * e.px + 2
                       /\ 2 * e.py <= m[2] /\ m[2] < 2 * e.py + 2

\* A Left scroll with a non-zero vertical delta was forwarded after the
\* pointer had moved, and the engine call has returned.
WitnessLeftAfterMotion ==
    /\ pc = "loop"
    /\ \E i \in TickIdx :
           /\ ticks[i].kind = "scroll"
           /\ ticks[i].dir = "Left"
           /\ ticks[i].dy # 0
           /\ MotionsBefore(i) # {}
           /\ CallsOf(i) # {}

\* The wake() calls that have returned.
WakesReturned == wakes - Cardinality({t \in Workers : wpc[t] # "idle"})

\* C20: until gtk::main is entered no flush tick runs and every wake() that
\* has returned is still queued; a flush tick's call comes after the
\* SelectBrowser batch in the engine's log; and a signal that is queued when
\* main is about to enter gtk::main is followed by a flush tick, unless the
\* loop is asked to quit first.
WakeKeptAcrossStartup ==
    /\ [](LifeCycle = 0 => (NumFlush = 0 /\ pending = WakesReturned))
    /\ [](\A i \in TickIdx :
             ticks[i].kind = "flush" =>
                 \A j \in CallsOf(i) :
                     \E k \in 1..(j - 1) : HasType(engineLog[k], {"SelectBrowser"}))
    /\ (pc = "main" /\ pending > 0) ~> (NumFlush > 0 \/ quit)

\* Every wake() of the run was issued and has returned during start-up: main
\* is about to enter gtk::main with all of their signals queued and no flush
\* tick run.
WitnessStartupWakesQueued ==
    /\ pc = "main"
    /\ "recv" \in registered
    /\ WakesReturned = MaxWakes
    /\ pending = MaxWakes
    /\ NumFlush = 0

====
